---- MODULE Spec2Model ----
(***************************************************************************)
(* Model of src/arithmetic.rs of pasta_curves: the FieldExt blanket impl   *)
(* (from_u128, from_bytes_wide, pow, get_lower_128), the SqrtRatio helper  *)
(* (get_lower_32, sqrt_ratio, sqrt_alt) and the Group blanket impl.        *)
(*                                                                         *)
(* The code is generic over the field T.  The model instantiates T with    *)
(* the prime field of MODULUS elements, an element being its canonical     *)
(* representative in 0..MODULUS-1.  A u64 is kept as four 16-bit words,    *)
(* least significant first, a u128 as eight, so that no intermediate       *)
(* value leaves the range of TLC's 32-bit integers.                        *)
(***************************************************************************)
EXTENDS Integers, Sequences, FiniteSets, TLC

VARIABLES pc, op, arg, ret, self, by, e, i, res, tmp, trace

vars == <<pc, op, arg, ret, self, by, e, i, res, tmp, trace>>

(***************************************************************************)
(* The field T and its constants.                                          *)
(***************************************************************************)
MODULUS == 13

F == 0 .. (MODULUS - 1)

ROOT_OF_UNITY_INV == 8

ROOT_OF_UNITY == CHOOSE x \in F : (x * ROOT_OF_UNITY_INV) % MODULUS = 1

ZETA == 3

zero == 0

one == 1

add(a, b) == (a + b) % MODULUS

sub(a, b) == (a + MODULUS - b) % MODULUS

mul(a, b) == (a * b) % MODULUS

square_as_double(a) == (a + a) % MODULUS

square(a) == (a * a) % MODULUS

\* subtle::ConditionallySelectable::conditional_assign: dest becomes src iff
\* the choice is 1; both operands are always read.
conditional_assign_always(dest, src, choice) == src

conditional_assign(dest, src, choice) == (1 - choice) * dest + choice * src

\* invert().unwrap_or(ZERO)
inv0(a) == IF a = 0 THEN 0 ELSE CHOOSE x \in F : (a * x) % MODULUS = 1

\* ff::Field::sqrt as the set of values it may return (empty: CtOption none)
sqrt(a) == { r \in F : (r * r) % MODULUS = a }

(***************************************************************************)
(* Machine integers.                                                       *)
(***************************************************************************)
WordBits == 16

WordBase == 2 ^ WordBits

LimbBits == 64

NumLimbs == 4

WordsPerLimb == LimbBits \div WordBits

\* (*e >> i) & 0x1 on a u64 held as 16-bit words
ExpBit_reversed(limb, k) == (limb[((LimbBits - 1 - k) \div WordBits) + 1] \div (2 ^ ((LimbBits - 1 - k) % WordBits))) % 2

ExpBit(limb, k) == (limb[(k \div WordBits) + 1] \div (2 ^ (k % WordBits))) % 2

U64(w0, w1, w2, w3) == <<w0, w1, w2, w3>>

ZeroLimb == U64(0, 0, 0, 0)

\* the sixteen words of a [u64; 4], least significant first
Words(x) == x[1] \o x[2] \o x[3] \o x[4]

\* the integer of a sequence of 16-bit words, least significant first, mod m
RECURSIVE ValTop(_, _, _)
ValTop(ws, j, m) ==
    IF j > Len(ws) THEN 0 ELSE (ws[j] + WordBase * ValTop(ws, j + 1, m)) % m

(***************************************************************************)
(* Operations delegated to the ff crate, by their contract.                *)
(***************************************************************************)
\* line 36: <T as ff::PrimeField>::from_u128(v), v a u128 as eight words
from_u128(v) == ValTop(v, 1, MODULUS)

\* line 104: <Self as ff::Field>::sqrt_ratio(num, div), as the set of pairs
\* (is_square, root) it may return: the root of num/div if that is a square,
\* else the root of ROOT_OF_UNITY * num/div; a zero div counts as quotient 0,
\* and the flag is then true only for a zero num.  Either root may come back.
sqrt_ratio_times_div(num, div) ==
    LET a == mul(div, num)
        b == mul(a, ROOT_OF_UNITY)
        is_square == sqrt(a) # {}
        flag == is_square /\ (num = zero \/ div # zero)
    IN  { <<flag, r>> : r \in (IF is_square THEN sqrt(a) ELSE sqrt(b)) }

sqrt_ratio_flag_of_quotient(num, div) ==
    LET a == mul(inv0(div), num)
        b == mul(a, ROOT_OF_UNITY)
        is_square == sqrt(a) # {}
    IN  { <<is_square, r>> : r \in (IF is_square THEN sqrt(a) ELSE sqrt(b)) }

sqrt_ratio(num, div) ==
    LET a == mul(inv0(div), num)
        b == mul(a, ROOT_OF_UNITY)
        is_square == sqrt(a) # {}
        flag == is_square /\ (num = zero \/ div # zero)
    IN  { <<flag, r>> : r \in (IF is_square THEN sqrt(a) ELSE sqrt(b)) }

\* line 106: <Self as ff::Field>::sqrt_alt(self), which is sqrt_ratio(self, 1)
sqrt_alt(a) == sqrt_ratio(a, one)

(***************************************************************************)
(* The Group trait and its blanket impl for prime fields.                  *)
(***************************************************************************)
\* lines 66-82: the items an impl of Group has to provide; none has a default
GroupItems == { "Scalar", "group_zero", "group_add", "group_sub", "group_scale" }

\* lines 84-85: the items `impl<T: ff::PrimeField> Group for T { }` provides
GroupImplItems == { }

(***************************************************************************)
(* Inputs the calls are made with.                                         *)
(***************************************************************************)
\* 2^63 + 2^32 + 2^16 + 1: a bit in every word, the top bit among them
HighLimb == U64(1, 1, 1, 32768)

\* the limbs 0, 5 and HighLimb in every position, and the exponent 1
LimbSamples == { ZeroLimb, U64(5, 0, 0, 0), HighLimb }

ZeroExp == [ k \in 1 .. NumLimbs |-> ZeroLimb ]

OneExp == [ ZeroExp EXCEPT ![1] = U64(1, 0, 0, 0) ]

FiveExp == [ ZeroExp EXCEPT ![1] = U64(5, 0, 0, 0) ]

ExpSamples == [ 1 .. NumLimbs -> LimbSamples ] \cup { OneExp }

\* u128 arguments: every canonical value, then MODULUS, 2^64 and 2^128 - 1
U128Words == 2 * WordsPerLimb

SmallU128(k) == [ j \in 1 .. U128Words |-> IF j = 1 THEN k ELSE 0 ]

U128Samples ==
    { SmallU128(k) : k \in 0 .. MODULUS }
      \cup { [ j \in 1 .. U128Words |-> IF j = WordsPerLimb + 1 THEN 1 ELSE 0 ],
             [ j \in 1 .. U128Words |-> WordBase - 1 ] }

\* [u8; 64] arguments: 0, 1, 2^256, 2^512 - 1 and the bytes 1, 2, ..., 64
WideLen == 64

BytesSamples ==
    { [ j \in 1 .. WideLen |-> 0 ],
      [ j \in 1 .. WideLen |-> IF j = 1 THEN 1 ELSE 0 ],
      [ j \in 1 .. WideLen |-> IF j = 33 THEN 1 ELSE 0 ],
      [ j \in 1 .. WideLen |-> 255 ],
      [ j \in 1 .. WideLen |-> j ] }

(***************************************************************************)
(* FieldExt::pow, one action per statement of the loop body.               *)
(***************************************************************************)
Callable == pc = "idle"

\* line 45: let mut res = Self::one(); the loops start at the last limb and
\* at bit 63
Call_pow ==
    /\ Callable
    /\ \E a \in F, x \in ExpSamples :
          /\ self' = a
          /\ by' = x
          /\ arg' = <<a, x>>
    /\ op' = "pow"
    /\ ret' = <<>>
    /\ res' = one
    /\ tmp' = zero
    /\ e' = NumLimbs
    /\ i' = LimbBits - 1
    /\ trace' = <<>>
    /\ pc' = "pow_square"

\* line 48: res = res.square();
PowSquare ==
    /\ pc = "pow_square"
    /\ res' = square(res)
    /\ trace' = Append(trace, "square")
    /\ pc' = "pow_mul"
    /\ UNCHANGED <<op, arg, ret, self, by, e, i, tmp>>

PowMul_branching ==
    /\ pc = "pow_mul"
    /\ IF ExpBit(by[e], i) = 1
         THEN /\ tmp' = mul(res, self)
              /\ trace' = Append(trace, "mul")
         ELSE /\ tmp' = res
              /\ trace' = trace
    /\ pc' = "pow_cassign"
    /\ UNCHANGED <<op, arg, ret, self, by, e, i, res>>

\* lines 49-50: let mut tmp = res; tmp *= self;
PowMul ==
    /\ pc = "pow_mul"
    /\ tmp' = mul(res, self)
    /\ trace' = Append(trace, "mul")
    /\ pc' = "pow_cassign"
    /\ UNCHANGED <<op, arg, ret, self, by, e, i, res>>

\* line 51: res.conditional_assign(&tmp, (((*e >> i) & 0x1) as u8).into());
\* then the next i, the next e, or the end of both loops
PowCondAssign ==
    /\ pc = "pow_cassign"
    /\ res' = conditional_assign(res, tmp, ExpBit(by[e], i))
    /\ trace' = Append(trace, "conditional_assign")
    /\ IF i > 0
         THEN /\ i' = i - 1
              /\ e' = e
              /\ pc' = "pow_square"
         ELSE IF e > 1
                THEN /\ i' = LimbBits - 1
                     /\ e' = e - 1
                     /\ pc' = "pow_square"
                ELSE /\ i' = i
                     /\ e' = e
                     /\ pc' = "pow_return"
    /\ UNCHANGED <<op, arg, ret, self, by, tmp>>

\* line 54: res
PowReturn ==
    /\ pc = "pow_return"
    /\ ret' = res
    /\ pc' = "returned"
    /\ UNCHANGED <<op, arg, self, by, e, i, res, tmp, trace>>

(***************************************************************************)
(* The other operations: one call, one step.                               *)
(***************************************************************************)
PowIdle == UNCHANGED <<self, by, e, i, res, tmp, trace>>

\* line 36
Call_from_u128 ==
    /\ Callable
    /\ \E v \in U128Samples :
          /\ arg' = <<v>>
          /\ ret' = from_u128(v)
    /\ op' = "from_u128"
    /\ pc' = "returned"
    /\ PowIdle

\* line 40: unimplemented!()
Call_from_bytes_wide ==
    /\ Callable
    /\ \E bytes \in BytesSamples : arg' = <<bytes>>
    /\ op' = "from_bytes_wide"
    /\ ret' = <<>>
    /\ pc' = "panicked"
    /\ PowIdle

\* line 59: unimplemented!()
Call_get_lower_128 ==
    /\ Callable
    /\ \E a \in F : arg' = <<a>>
    /\ op' = "get_lower_128"
    /\ ret' = <<>>
    /\ pc' = "panicked"
    /\ PowIdle

\* line 102: unimplemented!()
Call_get_lower_32 ==
    /\ Callable
    /\ \E a \in F : arg' = <<a>>
    /\ op' = "get_lower_32"
    /\ ret' = <<>>
    /\ pc' = "panicked"
    /\ PowIdle

\* line 104
Call_sqrt_ratio ==
    /\ Callable
    /\ \E num \in F, div \in F :
          /\ arg' = <<num, div>>
          /\ ret' \in sqrt_ratio(num, div)
    /\ op' = "sqrt_ratio"
    /\ pc' = "returned"
    /\ PowIdle

\* line 106
Call_sqrt_alt ==
    /\ Callable
    /\ \E a \in F :
          /\ arg' = <<a>>
          /\ ret' \in sqrt_alt(a)
    /\ op' = "sqrt_alt"
    /\ pc' = "returned"
    /\ PowIdle

\* a call of a Group method on a prime field: the trait gives the method no
\* body and the blanket impl gives it none either, so no value comes back
CallGroup(method, args) ==
    /\ Callable
    /\ method \in GroupItems \ GroupImplItems
    /\ op' = method
    /\ arg' = args
    /\ ret' = <<>>
    /\ pc' = "no_impl"
    /\ PowIdle

\* line 72
Call_group_zero == CallGroup("group_zero", <<>>)

\* line 75
Call_group_add == \E x \in F, rhs \in F : CallGroup("group_add", <<x, rhs>>)

\* line 78
Call_group_sub == \E x \in F, rhs \in F : CallGroup("group_sub", <<x, rhs>>)

\* line 81
Call_group_scale == \E x \in F, k \in F : CallGroup("group_scale", <<x, k>>)

Init ==
    /\ pc = "idle"
    /\ op = "none"
    /\ arg = <<>>
    /\ ret = <<>>
    /\ self = zero
    /\ by = ZeroExp
    /\ e = NumLimbs
    /\ i = LimbBits - 1
    /\ res = one
    /\ tmp = zero
    /\ trace = <<>>

Next ==
    \/ Call_pow
    \/ PowSquare
    \/ PowMul
    \/ PowCondAssign
    \/ PowReturn
    \/ Call_from_u128
    \/ Call_from_bytes_wide
    \/ Call_get_lower_128
    \/ Call_get_lower_32
    \/ Call_sqrt_ratio
    \/ Call_sqrt_alt
    \/ Call_group_zero
    \/ Call_group_add
    \/ Call_group_sub
    \/ Call_group_scale

Spec == Init /\ [][Next]_vars

(***************************************************************************)
(* pow as a function: the same loop, run to its end.                       *)
(***************************************************************************)
\* the loop body, lines 48-51, for bit bi of limb
PowIter(a, limb, bi, r) ==
    LET sq == square(r)
        t == mul(sq, a)
    IN  conditional_assign(sq, t, ExpBit(limb, bi))

\* n consecutive iterations of the inner loop `for i in (0..64).rev()`, the
\* last of them on bit lo of limb
RECURSIVE PowBits(_, _, _, _, _)
PowBits(a, limb, lo, n, r) ==
    IF n = 0 THEN r
    ELSE PowIter(a, limb, lo, PowBits(a, limb, lo + 1, n - 1, r))

\* the iterations from the g-th group of WordBits bits on, groups counted
\* from the top bit of the last limb (`for e in by.iter().rev()`); each
\* group starts from the field element the one before has left
RECURSIVE PowFrom(_, _, _, _)
PowFrom(a, x, g, r) ==
    LET le == NumLimbs - ((g - 1) \div WordsPerLimb)
        lo == LimbBits - WordBits * (((g - 1) % WordsPerLimb) + 1)
        r2 == PowBits(a, x[le], lo, WordBits, r)
    IN  IF g < NumLimbs * WordsPerLimb /\ r2 \in F THEN PowFrom(a, x, g + 1, r2) ELSE r2

pow(a, x) == PowFrom(a, x, 1, one)

(***************************************************************************)
(* Reference arithmetic for the properties: exponents as integers.         *)
(***************************************************************************)
NumWords == NumLimbs * WordsPerLimb

TotalBits == NumLimbs * LimbBits

\* the integer formed by the k most significant bits of x, mod m
PrefixMod(x, k, m) ==
    LET s == TotalBits - k
        d == s \div WordBits
        r == s % WordBits
        ws == Words(x)
    IN  IF d >= NumWords THEN 0
        ELSE ((ws[d + 1] \div (2 ^ r)) + (2 ^ (WordBits - r)) * ValTop(ws, d + 2, m)) % m

\* whether the integer formed by the k most significant bits of x is 0
PrefixIsZero(x, k) ==
    LET s == TotalBits - k
        d == s \div WordBits
        r == s % WordBits
        ws == Words(x)
    IN  \/ d >= NumWords
        \/ /\ ws[d + 1] \div (2 ^ r) = 0
           /\ \A j \in (d + 2) .. NumWords : ws[j] = 0

RECURSIVE NaivePow(_, _)
NaivePow(a, n) == IF n = 0 THEN 1 ELSE (a * NaivePow(a, n - 1)) % MODULUS

\* a^E mod MODULUS for the integer E given by its residue n mod MODULUS-1 and
\* by whether it is 0 (a^(MODULUS-1) = 1 for a # 0, and 0^0 = 1)
RefPow(a, n, isZero) ==
    IF isZero THEN 1 ELSE IF a = 0 THEN 0 ELSE NaivePow(a, n)

\* a raised to the integer e[0] + 2^64 e[1] + 2^128 e[2] + 2^192 e[3]
PowOfInteger(a, x) ==
    RefPow(a, PrefixMod(x, TotalBits, MODULUS - 1), PrefixIsZero(x, TotalBits))

\* carries of the 256-bit addition x + y, word by word
CarryInto(xs, ys) ==
    LET c[j \in 1 .. (NumWords + 1)] ==
            IF j = 1 THEN 0 ELSE (xs[j - 1] + ys[j - 1] + c[j - 1]) \div WordBase
    IN  c

Overflows(x, y) == CarryInto(Words(x), Words(y))[NumWords + 1] = 1

Add256(x, y) ==
    LET xs == Words(x)
        ys == Words(y)
        c == CarryInto(xs, ys)
        sum == [ j \in 1 .. NumWords |-> (xs[j] + ys[j] + c[j]) % WordBase ]
    IN  [ l \in 1 .. NumLimbs |->
            [ w \in 1 .. WordsPerLimb |-> sum[(l - 1) * WordsPerLimb + w] ] ]

\* second exponents for pow(a,e) * pow(a,f) = pow(a,e+f)
HomSamples ==
    { OneExp,
      [ ZeroExp EXCEPT ![1] = HighLimb ],
      [ ZeroExp EXCEPT ![1] = U64(5, 0, 0, 0), ![4] = HighLimb ] }

\* bits of the exponent the loop has consumed
Consumed ==
    IF pc \in { "pow_return", "returned" } THEN TotalBits
    ELSE (NumLimbs - e) * LimbBits + (LimbBits - 1 - i)

InPow == op = "pow" /\ pc # "idle"

\* C1: pow(a, e) is a raised to the integer of the four little-endian limbs,
\* mod p; pow(a,[1,0,0,0]) = a, pow(2,[5,0,0,0]) = 32, and
\* pow(a,e) * pow(a,f) = pow(a,e+f) when e+f does not overflow four limbs.
PowCorrect ==
    (op = "pow" /\ pc = "returned") =>
        /\ ret = PowOfInteger(self, by)
        /\ by = OneExp => ret = self
        /\ (self = 2 /\ by = FiveExp) => ret = 32 % MODULUS
        /\ \A f \in HomSamples :
              ~Overflows(by, f) =>
                  \A sum \in { Add256(by, f) } : mul(ret, pow(self, f)) = pow(self, sum)

PowCorrectWitness ==
    /\ op = "pow" /\ pc = "returned"
    /\ self = 2 /\ by = [ ZeroExp EXCEPT ![1] = U64(5, 0, 0, 0), ![4] = HighLimb ]
    /\ ret = 2

\* C9: pow(a, [0,0,0,0]) = 1 for every a, 0 included: res starts at 1 and no
\* conditional_assign replaces the square; pow(0, e) = 0 for every e # 0.
PowEdgeCases ==
    InPow =>
        /\ by = ZeroExp => res = one
        /\ (pc = "returned" /\ by = ZeroExp) => ret = one
        /\ (pc = "returned" /\ by # ZeroExp /\ self = zero) => ret = zero

PowEdgeCasesWitness ==
    /\ op = "pow" /\ pc = "returned"
    /\ self = zero /\ by = ZeroExp /\ ret = one

\* C10: once the loop has consumed the k most significant bits of the
\* exponent, res is the base raised to the integer those k bits form; res is
\* 1 before the first iteration; the call changes neither base nor exponent.
PowLoopInvariant ==
    InPow =>
        /\ pc \in { "pow_square", "pow_return", "returned" } =>
              res = RefPow(self, PrefixMod(by, Consumed, MODULUS - 1), PrefixIsZero(by, Consumed))
        /\ (pc = "pow_square" /\ Consumed = 0) => res = one
        /\ self = arg[1]
        /\ by = arg[2]

PowLoopInvariantWitness ==
    /\ op = "pow" /\ pc = "pow_square"
    /\ Consumed = LimbBits + 3
    /\ self = 2 /\ by[NumLimbs] = HighLimb /\ by[NumLimbs - 1] = U64(5, 0, 0, 0)
    /\ res = 3

\* the operations of n full iterations, whatever the base and the exponent
OpCycle == << "square", "mul", "conditional_assign" >>

ExpectedTrace(n) == [ k \in 1 .. n |-> OpCycle[((k - 1) % 3) + 1] ]

\* operations performed so far, from the position in the loop alone
StepsDone ==
    3 * Consumed + ( CASE pc = "pow_mul" -> 1
                       [] pc = "pow_cassign" -> 2
                       [] OTHER -> 0 )

\* C2: the operations pow performs are the same for every base and exponent:
\* 256 iterations of square, multiply, conditional_assign in that order; the
\* exponent bit is only the condition handed to conditional_assign.
PowConstantTime ==
    InPow =>
        /\ trace = ExpectedTrace(StepsDone)
        /\ pc = "returned" => Len(trace) = 3 * TotalBits

PowConstantTimeWitness ==
    /\ op = "pow" /\ pc = "returned"
    /\ by = ZeroExp
    /\ Len(trace) = 768

Finished == pc \in { "returned", "panicked", "no_impl" }

\* C3: from_u128, from_bytes_wide, pow, get_lower_128, get_lower_32,
\* sqrt_ratio and sqrt_alt are total: no call of them fails, aborts or panics.
OperationsTotal ==
    op \in { "from_u128", "from_bytes_wide", "pow", "get_lower_128",
             "get_lower_32", "sqrt_ratio", "sqrt_alt" } => pc # "panicked"

\* the integer of bytes lo .. lo+n-1 of b, least significant first, mod m
RECURSIVE BytesVal(_, _, _, _)
BytesVal(b, lo, n, m) ==
    IF n = 0 THEN 0 ELSE (b[lo] + 256 * BytesVal(b, lo + 1, n - 1, m)) % m

\* 2^128 mod m
Two128(m) ==
    LET t16 == WordBase % m
        t32 == (t16 * t16) % m
        t64 == (t32 * t32) % m
    IN  (t64 * t64) % m

\* the little-endian integer of the 64 bytes of b, mod m, by blocks of 16
LittleEndianMod(b, m) ==
    LET blk(k) == BytesVal(b, 16 * k + 1, 16, m)
    IN  (blk(0) + Two128(m) * ((blk(1) + Two128(m) * ((blk(2) + Two128(m) * blk(3)) % m)) % m)) % m

\* C4: from_bytes_wide(b) is the field element congruent mod p to the
\* little-endian integer of the 64 bytes b.
FromBytesWideReduces ==
    (op = "from_bytes_wide" /\ Finished) =>
        /\ pc = "returned"
        /\ ret = LittleEndianMod(arg[1], MODULUS)

\* v < min(2^128, p), for a u128 v
BelowModulus(v) == v[1] < MODULUS /\ \A j \in 2 .. U128Words : v[j] = 0

\* C5: get_lower_128(from_u128(v)) = v for every v < min(2^128, p), and
\* get_lower_32(a) is the canonical integer of a modulo 2^32 (a u32 as two
\* 16-bit words).
LowBitsRoundTrip ==
    /\ (op = "get_lower_128" /\ Finished) =>
          \A v \in U128Samples :
              (BelowModulus(v) /\ from_u128(v) = arg[1]) => (pc = "returned" /\ ret = v)
    /\ (op = "get_lower_32" /\ Finished) =>
          (pc = "returned" /\ ret = << arg[1] % WordBase, arg[1] \div WordBase >>)

\* num / div for div # 0
Quotient(num, div) == mul(num, inv0(div))

\* C6: for d # 0 and q = n/d, sqrt_ratio(n, d) = (true, r) gives r^2 = q and
\* (false, r) gives r^2 = ZETA * q, ZETA^3 = 1, ZETA # 1; sqrt_alt(ZETA) is
\* (false, r) with r^2 * ZETA = 1.
SqrtRatioZeta ==
    /\ mul(ZETA, mul(ZETA, ZETA)) = one /\ ZETA # one
    /\ (op = "sqrt_ratio" /\ pc = "returned" /\ arg[2] # zero) =>
          /\ ret[1] => square(ret[2]) = Quotient(arg[1], arg[2])
          /\ ~ret[1] => square(ret[2]) = mul(ZETA, Quotient(arg[1], arg[2]))
    /\ (op = "sqrt_alt" /\ pc = "returned" /\ arg[1] = ZETA) =>
          /\ ~ret[1]
          /\ mul(square(ret[2]), ZETA) = one

\* C6 as amended: for d # 0 and q = n/d, (true, r) gives r^2 = q and
\* (false, r) gives r^2 = ROOT_OF_UNITY * q; ZETA^3 = 1, ZETA # 1; sqrt_alt(ZETA)
\* is (true, r) with r^2 = ZETA.
SqrtRatioRootOfUnity ==
    /\ mul(ZETA, mul(ZETA, ZETA)) = one /\ ZETA # one
    /\ (op = "sqrt_ratio" /\ pc = "returned" /\ arg[2] # zero) =>
          /\ ret[1] => square(ret[2]) = Quotient(arg[1], arg[2])
          /\ ~ret[1] => square(ret[2]) = mul(ROOT_OF_UNITY, Quotient(arg[1], arg[2]))
    /\ (op = "sqrt_alt" /\ pc = "returned" /\ arg[1] = ZETA) =>
          /\ ret[1]
          /\ square(ret[2]) = ZETA

SqrtRatioRootOfUnityWitness ==
    /\ op = "sqrt_ratio" /\ pc = "returned"
    /\ arg = <<4, 2>>
    /\ ret = <<FALSE, 6>>

\* C7: sqrt_ratio(0, 0) = (true, 0), and sqrt_ratio(n, 0) = (false, 0) for
\* every n # 0.
SqrtRatioDivZero ==
    (op = "sqrt_ratio" /\ Finished /\ arg[2] = zero) =>
        /\ pc = "returned"
        /\ ret = << arg[1] = zero, zero >>

SqrtRatioDivZeroWitness ==
    /\ op = "sqrt_ratio" /\ pc = "returned"
    /\ arg = <<3, 0>>
    /\ ret = <<FALSE, 0>>

\* C8: on a prime field group_zero() is the field zero, group_add and
\* group_sub are field addition and subtraction, group_scale(x, k) leaves
\* k * x in x; hence zero()+x = x, (x+y)-y = x, scale(x,0) = zero(),
\* scale(x,1) = x, scale(zero(),k) = zero(), scale(x,a)+scale(x,b) = scale(x,a+b).
GroupOfField ==
    /\ (op = "group_zero" /\ Finished) => (pc = "returned" /\ ret = zero)
    /\ (op = "group_add" /\ Finished) => (pc = "returned" /\ ret = add(arg[1], arg[2]))
    /\ (op = "group_sub" /\ Finished) => (pc = "returned" /\ ret = sub(arg[1], arg[2]))
    /\ (op = "group_scale" /\ Finished) => (pc = "returned" /\ ret = mul(arg[2], arg[1]))

====
